---- MODULE Spec2Model ----
(***************************************************************************)
(* Cyclomatic-complexity reporter (src/main.cpp).                          *)
(*                                                                         *)
(* The program truncates output.cy, reads the source text, has libclang    *)
(* parse it, walks the direct children of the translation-unit cursor and, *)
(* for every FunctionDecl among them, counts the decision points of the    *)
(* cursor's subtree and appends "<line> <name> <complexity>" to output.cy. *)
(*                                                                         *)
(* The syntax tree, the cursor kinds, the source lines, the spellings and  *)
(* the token sequences are what libclang hands to the program: they are    *)
(* the inputs of the model.  Cursors are numbered 0..n, 0 being the        *)
(* translation-unit cursor, in the order libclang visits them.             *)
(***************************************************************************)
EXTENDS Integers, Sequences, FiniteSets, TLC

\* ------------------------------------------------------------------ bounds
MaxNodes == 3      \* cursors below the translation-unit cursor
MaxTok == 2        \* tokens in the extent of a degenerate operator cursor
MaxPrev == 2       \* records left in output.cy by an earlier run
MaxDepth == 2      \* nesting depth of the well-formed operator expressions
MaxBody == 3       \* cursors below the function cursor, for the traversal alone

\* ------------------------------------------------------- frontend vocabulary
NullCursor == -1
Root == 0

SimpleDecisionKinds ==
    {"IfStmt", "ForStmt", "WhileStmt", "DefaultStmt", "CaseStmt", "ConditionalOperator"}

Kinds ==
    SimpleDecisionKinds \cup {"BinaryOperator", "FunctionDecl", "DoStmt", "SwitchStmt"}

Operators == {"&&", "||", "+"}
Operands == {"a"}
Tokens == Operators \cup Operands
Garbage == "?"

VARIABLES
    pc,        \* position of main: start, read, parse, visit, count, done, exit, crashed
    log,       \* contents of output.cy, a sequence of records
    written,   \* history: the cursor each record of this run was produced for
    parent,    \* the tree: parent[c] for the cursors 1..n
    kind,      \* kind[c] for the cursors 1..n
    idx,       \* clang_visitChildren(root): index of the next child of the root
    fn,        \* the FunctionDecl cursor under analysis
    stack,     \* cursors countEdgesAndNodesCallback has still to be called on
    counter,   \* the EdgeAndNodeCounter of the analysis under way
    visited,   \* history: cursors countEdgesAndNodesCallback was called on, in order
    sym,       \* history: operator symbol getBinaryOperator returned for a cursor
    exitCode,  \* exit status of the process, -1 while it runs
    errOut,    \* lines written to std::cerr
    rT,        \* operator resolution alone: tokens of the operator cursor's extent
    rL,        \* operator resolution alone: tokens of the first child's extent
    rKids,     \* operator resolution alone: number of children of the operator cursor
    rOp,       \* operator resolution alone: the operator the expression was built with
    rIndex,    \* operator resolution alone: 0-based index used on the tokens, -1 if none
    rSym,      \* operator resolution alone: the symbol returned
    rState     \* operator resolution alone: idle, ready, returned, crashed

vars == <<pc, log, written, parent, kind, idx, fn, stack, counter, visited, sym,
          exitCode, errOut, rT, rL, rKids, rOp, rIndex, rSym, rState>>

resolverVars == <<rT, rL, rKids, rOp, rIndex, rSym, rState>>

\* ------------------------------------------------------------ the tree
NumNodes == Len(parent)

Cursors == 1..NumNodes

RECURSIVE AncestorsOrSelf(_, _)
AncestorsOrSelf(p, c) ==
    IF c = Root THEN {Root} ELSE {c} \cup AncestorsOrSelf(p, p[c])

\* Cursors are numbered in the order the frontend visits them.
WellNumbered(p) ==
    \A c \in 1..Len(p) :
        /\ p[c] < c
        /\ c > 1 => p[c] \in AncestorsOrSelf(p, c - 1)

Shapes(n) == {p \in [1..n -> 0..(n - 1)] : WellNumbered(p)}

RECURSIVE ChildrenFrom(_, _)
ChildrenFrom(c, j) ==
    IF j > NumNodes THEN <<>>
    ELSE IF parent[j] = c THEN <<j>> \o ChildrenFrom(c, j + 1)
    ELSE ChildrenFrom(c, j + 1)

\* clang_visitChildren(c, ...): the children of c in the frontend's order.
Children(c) == ChildrenFrom(c, 1)

\* The cursors of the subtree of c, depth first, a cursor before its children,
\* siblings in the frontend's order.
RECURSIVE PreOrder(_)
RECURSIVE PreOrderAll(_)
PreOrder(c) == <<c>> \o PreOrderAll(Children(c))
PreOrderAll(cs) == IF cs = <<>> THEN <<>> ELSE PreOrder(Head(cs)) \o PreOrderAll(Tail(cs))

KindOf(c) == IF c = Root THEN "TranslationUnit" ELSE kind[c]

LineOf(c) == (c + 1) \div 2

SpellingOf(c) == IF c % 2 = 1 THEN "f" ELSE "g"

\* ------------------------------------------------------------ tokens
TokSeqsOfLen(k) == [1..k -> Tokens]

\* What clang_tokenize may return for the extent of a cursor.
TokSeqs == UNION {TokSeqsOfLen(k) : k \in 0..MaxTok}

\* Well-formed operator expressions: an operand, or  lhs op rhs  whose tokens are
\* the tokens of lhs, the operator, the tokens of rhs.
RECURSIVE Exprs(_)
Exprs(d) ==
    IF d = 0 THEN {[toks |-> <<x>>, ltoks |-> <<>>, op |-> ""] : x \in Operands}
    ELSE Exprs(d - 1) \cup
         {[toks |-> l.toks \o <<o>> \o r.toks, ltoks |-> l.toks, op |-> o] :
              l \in Exprs(d - 1), r \in Exprs(d - 1), o \in Operators}

BinaryExprs == {e \in Exprs(MaxDepth) : e.op # ""}

\* ------------------------------------------------------------ the program
decision_kinds ==
    <<"IfStmt", "ForStmt", "WhileStmt", "DefaultStmt", "CaseStmt",
      "ConditionalOperator", "BinaryOperator">>

getFirstChild(c) == IF Children(c) = <<>> THEN NullCursor ELSE Head(Children(c))

\* Tokens of the extent of the first child: the null cursor has the null extent,
\* which tokenizes to nothing; a child's extent lies at the start of its parent's.
LeftTokens(first, T) ==
    IF first = NullCursor THEN {<<>>} ELSE {SubSeq(T, 1, k) : k \in 0..Len(T)}

\* Variant: the index taken one token too far.
OperatorIndexOffByOne(T, L) == Len(L) + 1

\* expressionTokens[numLeftHandSideTokens]: the 0-based index that is read.
OperatorIndex(T, L) == Len(L)

\* What reading past the end of the token array may produce.
OutOfBoundsOutcomes == Tokens \cup {Garbage, "SIGSEGV"}

\* Variant: the index is checked against the number of tokens before the read.
getBinaryOperatorChecked(T, L) ==
    IF OperatorIndex(T, L) \in 0..(Len(T) - 1)
    THEN {T[OperatorIndex(T, L) + 1]}
    ELSE {""}

\* The symbols getBinaryOperator may return ("SIGSEGV": the process dies).
getBinaryOperator(T, L) ==
    IF OperatorIndex(T, L) \in 0..(Len(T) - 1)
    THEN {T[OperatorIndex(T, L) + 1]}
    ELSE OutOfBoundsOutcomes

\* getBinaryOperator(translationUnit, cursor): what it may return over all the
\* tokens the frontend may give for the cursor's extent and its first child's.
OperatorOutcomes(cursor) ==
    UNION {UNION {getBinaryOperator(T, L) : L \in LeftTokens(getFirstChild(cursor), T)} :
           T \in TokSeqs}

\* Variant: one counter shared by all functions, never reset.
StaleCounter == counter

EdgeAndNodeCounter == [edges |-> 0, nodes |-> 0]

Bump(c) == [edges |-> c.edges + 2, nodes |-> c.nodes + 1]

InDecisionKinds(k) == \E i \in 1..Len(decision_kinds) : decision_kinds[i] = k

NeedsOperator(k) == InDecisionKinds(k) /\ k = "BinaryOperator"

IsLogical(s) == s = "&&" \/ s = "||"

\* Variant: every binary operator counts, whatever its symbol.
ClassifyAnyOperator(c, k, s) == IF InDecisionKinds(k) THEN Bump(c) ELSE c

\* The counter after countEdgesAndNodesCallback has looked at a cursor of kind k
\* whose operator symbol, when it is a binary operator, is s.
Classify(c, k, s) ==
    IF InDecisionKinds(k)
    THEN IF k = "BinaryOperator"
         THEN IF IsLogical(s) THEN Bump(c) ELSE c
         ELSE Bump(c)
    ELSE c

\* Variant: the traversal does not go below a cursor that counted as a decision.
DescendUnlessDecision(cursor) ==
    IF InDecisionKinds(KindOf(cursor)) THEN <<>> ELSE Children(cursor)

\* clang_visitChildren(cursor, countEdgesAndNodesCallback, clientData): the cursors
\* the callback is called on next, before the siblings still waiting.
Descend(cursor) == Children(cursor)

\* Variant: the entry node of the function is left out of the node count.
ComplexityWithoutEntryNode(c) == c.edges - c.nodes + 2

\* Variant: the siblings still waiting are visited before the children.
VisitSiblingsFirst(children, waiting) == waiting \o children

\* The callback recurses into the children of a cursor before it returns
\* CXChildVisit_Continue, which is what lets the cursor's next sibling be visited.
VisitOrder(children, waiting) == children \o waiting

computeCyclomaticComplexity(c) ==
    LET edges == c.edges
        nodes == c.nodes + 1
    IN  edges - nodes + 2

Record(c, complexity) ==
    [line |-> LineOf(c), name |-> SpellingOf(c), complexity |-> complexity]

\* Variant: the record is put in front of the file's contents.
PrependRecord(file, rec) == <<rec>> \o file

\* Variant: the file is opened without std::ios_base::app.
OverwriteRecord(file, rec) == <<rec>>

\* std::ofstream("output.cy", std::ios_base::app) << record
AppendRecord(file, rec) == Append(file, rec)

\* The cursors visitChildren_callback is called on.
DriverCursors == Children(Root)

IsFunction(c) == KindOf(c) = "FunctionDecl"

OldRecord == [line |-> 9, name |-> "old", complexity |-> 7]

PrevLogs == UNION {[1..k -> {OldRecord}] : k \in 0..MaxPrev}

ParseError == "Error: Unable to parse translation unit."

\* ------------------------------------------------------------ main
ResolverIdle ==
    /\ rT = <<>> /\ rL = <<>> /\ rKids = 0 /\ rOp = ""
    /\ rIndex = -1 /\ rSym = "" /\ rState = "idle"

Init ==
    /\ pc = "start"
    /\ log \in PrevLogs
    /\ written = <<>>
    /\ parent = <<>>
    /\ kind = <<>>
    /\ idx = 0
    /\ fn = NullCursor
    /\ stack = <<>>
    /\ counter = [edges |-> 0, nodes |-> 0]
    /\ visited = <<>>
    /\ sym = <<>>
    /\ exitCode = -1
    /\ errOut = <<>>
    /\ ResolverIdle

\* std::ofstream outputFile("output.cy"); outputFile.close();
Truncate ==
    /\ pc = "start"
    /\ log' = <<>>
    /\ pc' = "read"
    /\ UNCHANGED <<written, parent, kind, idx, fn, stack, counter, visited, sym,
                   exitCode, errOut, resolverVars>>

ReadSourceCode ==
    /\ pc = "read"
    /\ pc' = "parse"
    /\ UNCHANGED <<log, written, parent, kind, idx, fn, stack, counter, visited, sym,
                   exitCode, errOut, resolverVars>>

ParseOk ==
    /\ pc = "parse"
    /\ \E n \in 0..MaxNodes : \E p \in Shapes(n) : \E k \in [1..n -> Kinds] :
        /\ parent' = p
        /\ kind' = k
        /\ sym' = [c \in 1..n |-> ""]
    /\ idx' = 1
    /\ pc' = "visit"
    /\ UNCHANGED <<log, written, fn, stack, counter, visited, exitCode, errOut,
                   resolverVars>>

\* Variant: the error is reported but the process goes on with an empty tree.
ParseFailReturns ==
    /\ pc = "parse"
    /\ errOut' = Append(errOut, ParseError)
    /\ idx' = 1
    /\ pc' = "visit"
    /\ UNCHANGED <<log, written, parent, kind, fn, stack, counter, visited, sym,
                   exitCode, resolverVars>>

\* parseTranslationUnit when clang_parseTranslationUnit2 reports an error.
ParseFail ==
    /\ pc = "parse"
    /\ errOut' = Append(errOut, ParseError)
    /\ exitCode' = 1
    /\ pc' = "exit"
    /\ UNCHANGED <<log, written, parent, kind, idx, fn, stack, counter, visited, sym,
                   resolverVars>>

\* visitChildren_callback on a cursor that is no FunctionDecl.
SkipChild ==
    /\ pc = "visit"
    /\ idx <= Len(DriverCursors)
    /\ ~IsFunction(DriverCursors[idx])
    /\ idx' = idx + 1
    /\ UNCHANGED <<pc, log, written, parent, kind, fn, stack, counter, visited, sym,
                   exitCode, errOut, resolverVars>>

\* visitChildren_callback on a FunctionDecl, up to the first call of
\* countEdgesAndNodesCallback.
BeginFunction ==
    /\ pc = "visit"
    /\ idx <= Len(DriverCursors)
    /\ IsFunction(DriverCursors[idx])
    /\ fn' = DriverCursors[idx]
    /\ counter' = EdgeAndNodeCounter
    /\ stack' = <<DriverCursors[idx]>>
    /\ visited' = <<>>
    /\ pc' = "count"
    /\ UNCHANGED <<log, written, parent, kind, idx, sym, exitCode, errOut,
                   resolverVars>>

\* countEdgesAndNodesCallback on a cursor getBinaryOperator is not called for.
CountPlain ==
    /\ pc = "count"
    /\ stack # <<>>
    /\ LET cursor == Head(stack) IN
        /\ ~NeedsOperator(KindOf(cursor))
        /\ counter' = Classify(counter, KindOf(cursor), "")
        /\ visited' = Append(visited, cursor)
        /\ stack' = VisitOrder(Descend(cursor), Tail(stack))
    /\ UNCHANGED <<pc, log, written, parent, kind, idx, fn, sym, exitCode, errOut,
                   resolverVars>>

\* countEdgesAndNodesCallback on a binary operator, getBinaryOperator returning.
CountBinary ==
    /\ pc = "count"
    /\ stack # <<>>
    /\ LET cursor == Head(stack) IN
        /\ NeedsOperator(KindOf(cursor))
        /\ \E s \in OperatorOutcomes(cursor) \ {"SIGSEGV"} :
            /\ sym' = [sym EXCEPT ![cursor] = s]
            /\ counter' = Classify(counter, KindOf(cursor), s)
        /\ visited' = Append(visited, cursor)
        /\ stack' = VisitOrder(Descend(cursor), Tail(stack))
    /\ UNCHANGED <<pc, log, written, parent, kind, idx, fn, exitCode, errOut,
                   resolverVars>>

\* countEdgesAndNodesCallback on a binary operator, the read past the tokens
\* killing the process.
CountBinaryCrash ==
    /\ pc = "count"
    /\ stack # <<>>
    /\ LET cursor == Head(stack) IN
        /\ NeedsOperator(KindOf(cursor))
        /\ "SIGSEGV" \in OperatorOutcomes(cursor)
    /\ pc' = "crashed"
    /\ exitCode' = 139
    /\ UNCHANGED <<log, written, parent, kind, idx, fn, stack, counter, visited, sym,
                   errOut, resolverVars>>

\* visitChildren_callback after the traversal: the complexity and the record.
FinishFunction ==
    /\ pc = "count"
    /\ stack = <<>>
    /\ log' = AppendRecord(log, Record(fn, computeCyclomaticComplexity(counter)))
    /\ written' = Append(written, fn)
    /\ idx' = idx + 1
    /\ pc' = "visit"
    /\ UNCHANGED <<parent, kind, fn, stack, counter, visited, sym, exitCode, errOut,
                   resolverVars>>

\* clang_visitChildren(root) has returned: dispose and return 0.
Finish ==
    /\ pc = "visit"
    /\ idx > Len(DriverCursors)
    /\ pc' = "done"
    /\ exitCode' = 0
    /\ UNCHANGED <<log, written, parent, kind, idx, fn, stack, counter, visited, sym,
                   errOut, resolverVars>>

Next ==
    \/ Truncate
    \/ ReadSourceCode
    \/ ParseOk
    \/ ParseFail
    \/ SkipChild
    \/ BeginFunction
    \/ CountPlain
    \/ CountBinary
    \/ CountBinaryCrash
    \/ FinishFunction
    \/ Finish

Spec == Init /\ [][Next]_vars

\* ------------------------------------------------------ the traversal alone
\* main after a successful parse of a source text that holds one function: the
\* root has one child, a FunctionDecl, with up to MaxBody cursors below it.
InitTraverse ==
    /\ pc = "visit"
    /\ log = <<>>
    /\ written = <<>>
    /\ \E n \in 1..(MaxBody + 1) : \E p \in Shapes(n) : \E k \in [1..n -> Kinds] :
        /\ \A c \in 2..n : p[c] # Root
        /\ k[1] = "FunctionDecl"
        /\ parent = p
        /\ kind = k
        /\ sym = [c \in 1..n |-> ""]
    /\ idx = 1
    /\ fn = NullCursor
    /\ stack = <<>>
    /\ counter = [edges |-> 0, nodes |-> 0]
    /\ visited = <<>>
    /\ exitCode = -1
    /\ errOut = <<>>
    /\ ResolverIdle

NextTraverse ==
    \/ BeginFunction
    \/ CountPlain
    \/ CountBinary
    \/ CountBinaryCrash
    \/ FinishFunction
    \/ Finish

SpecTraverse == InitTraverse /\ [][NextTraverse]_vars

\* ------------------------------------------------ operator resolution alone
\* getBinaryOperator applied to one operator cursor: a well-formed expression, or
\* any token sequences a degenerate cursor and its first child may have.
InitResolve ==
    /\ pc = "resolver"
    /\ log = <<>>
    /\ written = <<>>
    /\ parent = <<>>
    /\ kind = <<>>
    /\ idx = 0
    /\ fn = NullCursor
    /\ stack = <<>>
    /\ counter = [edges |-> 0, nodes |-> 0]
    /\ visited = <<>>
    /\ sym = <<>>
    /\ exitCode = -1
    /\ errOut = <<>>
    /\ rState = "ready"
    /\ rIndex = -1
    /\ rSym = ""
    /\ \/ \E e \in BinaryExprs :
            /\ rT = e.toks
            /\ rL = e.ltoks
            /\ rKids = 2
            /\ rOp = e.op
       \/ /\ rT \in TokSeqs
          /\ rKids \in 0..2
          /\ rL \in (IF rKids = 0 THEN {<<>>} ELSE TokSeqs)
          /\ rOp = ""

ResolveReturn ==
    /\ rState = "ready"
    /\ \E s \in getBinaryOperator(rT, rL) \ {"SIGSEGV"} : rSym' = s
    /\ rIndex' = OperatorIndex(rT, rL)
    /\ rState' = "returned"
    /\ UNCHANGED <<pc, log, written, parent, kind, idx, fn, stack, counter, visited,
                   sym, exitCode, errOut, rT, rL, rKids, rOp>>

ResolveCrash ==
    /\ rState = "ready"
    /\ "SIGSEGV" \in getBinaryOperator(rT, rL)
    /\ rIndex' = OperatorIndex(rT, rL)
    /\ rState' = "crashed"
    /\ UNCHANGED <<pc, log, written, parent, kind, idx, fn, stack, counter, visited,
                   sym, exitCode, errOut, rT, rL, rKids, rOp, rSym>>

NextResolve ==
    \/ ResolveReturn
    \/ ResolveCrash

SpecResolve == InitResolve /\ [][NextResolve]_vars

\* ============================================================ properties
\* ---- vocabulary of the properties (independent of the program's operators)
Subtree(c) == {d \in Cursors : c \in AncestorsOrSelf(parent, d)}

IsPrefix(a, b) == Len(a) <= Len(b) /\ SubSeq(b, 1, Len(a)) = a

IsProperPrefix(a, b) == IsPrefix(a, b) /\ Len(a) < Len(b)

Position(seq, x) == CHOOSE i \in 1..Len(seq) : seq[i] = x

Range(seq) == {seq[i] : i \in 1..Len(seq)}

SimpleDecisions(c) == {d \in Subtree(c) : KindOf(d) \in SimpleDecisionKinds}

LogicalOperators(c) ==
    {d \in Subtree(c) : KindOf(d) = "BinaryOperator" /\ sym[d] \in {"&&", "||"}}

IsDecisionPoint(d) ==
    \/ KindOf(d) \in SimpleDecisionKinds
    \/ KindOf(d) = "BinaryOperator" /\ sym[d] \in {"&&", "||"}

DecisionsAmong(seq) == Cardinality({i \in 1..Len(seq) : IsDecisionPoint(seq[i])})

\* The records of this run, once output.cy has been truncated.
ThisRun == IF pc = "start" THEN {} ELSE 1..Len(log)

Aligned == pc # "start" => Len(log) = Len(written)

FunctionCursors == {c \in Cursors : KindOf(c) = "FunctionDecl"}

\* ---- C1: the complexity of every record is 1 + the number of if / for / while /
\* default / case / conditional-operator cursors in the function's subtree + the
\* number of binary-operator cursors there that resolved to && or ||; nothing
\* else contributes.
C1_ComplexityFormula ==
    /\ Aligned
    /\ \A i \in ThisRun :
        log[i].complexity =
            1 + Cardinality(SimpleDecisions(written[i]))
              + Cardinality(LogicalOperators(written[i]))

C1_Witness ==
    /\ pc = "done"
    /\ \E i \in ThisRun :
        /\ log[i].complexity = 2
        /\ \E d \in Subtree(written[i]) : KindOf(d) = "BinaryOperator" /\ sym[d] = "+"
        /\ \E d \in Subtree(written[i]) : KindOf(d) = "BinaryOperator" /\ sym[d] = "||"

\* ---- C2: at the end of a successful run there is one record for every
\* FunctionDecl cursor of the whole tree, whatever its depth.
C2_EveryDepth ==
    pc = "done" => Len(log) = Cardinality(FunctionCursors)

\* ---- C3: records appear in the order of the pre-order traversal of the tree
\* (siblings left to right), and the first two fields of a record are the line
\* and the spelling of the cursor it was produced for.
C3_DiscoveryOrder ==
    /\ Aligned
    /\ \A i, j \in ThisRun :
        i < j <=> Position(PreOrder(Root), written[i]) < Position(PreOrder(Root), written[j])
    /\ \A i \in ThisRun :
        /\ log[i].line = LineOf(written[i])
        /\ log[i].name = SpellingOf(written[i])

C3_Witness ==
    /\ pc = "done"
    /\ Len(log) = 2
    /\ log[1].line < log[2].line
    /\ \E c \in Cursors : ~IsFunction(c) /\ parent[c] = Root /\ written[1] < c /\ c < written[2]

\* ---- C4: every record in the log has complexity >= 1, and a function whose
\* subtree holds no decision point (a body-less declaration included) is recorded
\* with complexity 1.
C4_AtLeastOne ==
    /\ Aligned
    /\ \A i \in 1..Len(log) : log[i].complexity >= 1
    /\ \A i \in ThisRun :
        (\A d \in Subtree(written[i]) : ~IsDecisionPoint(d)) => log[i].complexity = 1

C4_Witness ==
    /\ pc = "visit"
    /\ \E i \in ThisRun :
        /\ Children(written[i]) = <<>>
        /\ log[i].complexity = 1
    /\ \E i \in ThisRun :
        /\ \E d \in Subtree(written[i]) : KindOf(d) \in {"DoStmt", "SwitchStmt"}
        /\ log[i].complexity = 1

\* ---- C5: output.cy is truncated by the first step of the run, before the input is
\* read or parsed, and no later step does anything but append to it.
C5_TruncateThenAppend ==
    [][/\ pc = "start" => log' = <<>> /\ pc' = "read"
       /\ pc # "start" => IsPrefix(log, log') /\ pc' # "start"
       /\ pc \in {"read", "parse"} => log' = <<>>]_vars

C5_Witness ==
    /\ pc = "count"
    /\ Len(log) = 2
    /\ stack = <<>>

\* ---- C6: a failed parse writes the error, ends the process with a non-zero status,
\* visits no cursor and appends no record: the log is empty at termination.
C6_ParseFailure ==
    /\ errOut # <<>> =>
        /\ pc = "exit"
        /\ errOut = <<ParseError>>
    /\ pc = "exit" =>
        /\ exitCode # 0 /\ exitCode # -1
        /\ log = <<>>
        /\ written = <<>>
        /\ visited = <<>>
        /\ parent = <<>>
        /\ idx = 0
        /\ ~ENABLED Next

C6_Witness ==
    /\ pc = "exit"
    /\ exitCode = 1
    /\ errOut # <<>>
    /\ log = <<>>

\* ---- C7: the traversal calls the callback once on the function cursor and on every
\* descendant, in depth-first pre-order with siblings in child order; a cursor's
\* contribution is in the counter before its children are visited; it goes below
\* decision points too, so nested decision points each count.
C7_FullPreOrder ==
    /\ pc = "count" =>
        /\ IsPrefix(visited, PreOrder(fn))
        /\ visited \o stack # <<>>
        /\ stack # <<>> => Head(stack) = PreOrder(fn)[Len(visited) + 1]
        /\ stack = <<>> => visited = PreOrder(fn)
        /\ counter.nodes = DecisionsAmong(visited)
        /\ counter.edges = 2 * DecisionsAmong(visited)
    /\ \A i \in ThisRun :
        i = Len(log) /\ pc \in {"visit", "done"} =>
            /\ visited = PreOrder(written[i])
            /\ log[i].complexity = 1 + DecisionsAmong(PreOrder(written[i]))

\* if (a && b || c) in an otherwise empty function: the if, the || below it and
\* the && below that have all been visited, and the complexity is 4.
C7_Witness ==
    /\ pc = "count"
    /\ stack = <<>>
    /\ Len(visited) = 4
    /\ KindOf(visited[2]) = "IfStmt"
    /\ KindOf(visited[3]) = "BinaryOperator" /\ sym[visited[3]] = "||"
    /\ KindOf(visited[4]) = "BinaryOperator" /\ sym[visited[4]] = "&&"
    /\ parent[visited[3]] = visited[2]
    /\ parent[visited[4]] = visited[3]
    /\ computeCyclomaticComplexity(counter) = 4

\* ---- C8: the counter of a function starts at (0, 0) and only the callback's visit
\* of a cursor of that function's subtree changes it, so the complexity written
\* for a function is that of its own subtree whatever was analysed before.
C8_FreshCounter ==
    [][/\ pc = "visit" /\ pc' = "count" =>
            counter' = [edges |-> 0, nodes |-> 0] /\ visited' = <<>>
       /\ counter' # counter =>
            \/ pc = "visit" /\ pc' = "count"
            \/ /\ pc = "count" /\ pc' = "count" /\ stack # <<>>
               /\ Head(stack) \in Subtree(fn)
               /\ visited' = Append(visited, Head(stack))
       /\ pc = "count" /\ pc' = "visit" =>
            log'[Len(log')].complexity = 1 + DecisionsAmong(PreOrder(fn))]_vars

C8_Witness ==
    /\ pc = "count"
    /\ visited = <<>>
    /\ counter = [edges |-> 0, nodes |-> 0]
    /\ Len(log) = 1
    /\ log[1].complexity > 1

\* ---- C9: the resolver returns the spelling of T[len(L)] (0-based); when L is a
\* proper prefix of T the index is in range and the symbol is the token right
\* after the left operand's tokens: the cursor's own operator, not one nested in
\* an operand.
C9_OperatorAfterLeft ==
    /\ rOp # "" => IsProperPrefix(rL, rT)
    /\ rState \in {"returned", "crashed"} /\ IsProperPrefix(rL, rT) =>
        /\ rState = "returned"
        /\ rIndex = Len(rL)
        /\ rIndex \in 0..(Len(rT) - 1)
        /\ rSym = rT[Len(rL) + 1]
        /\ rOp # "" => rSym = rOp

C9_Witness ==
    /\ rState = "returned"
    /\ rOp = "&&"
    /\ rSym = "&&"
    /\ rL = <<"a", "||", "a">>
    /\ rT = <<"a", "||", "a", "&&", "a", "+", "a">>

\* ---- C10 as stated: resolving a binary operator that has no children indexes out
\* of the range of T.
C10_ChildlessOutOfRange ==
    rState \in {"returned", "crashed"} /\ rKids = 0 => rIndex >= Len(rT)

\* ---- C10 as amended: nothing checks the index len(L) against T; the read is out
\* of range exactly when len(L) >= len(T), and then anything may be returned or
\* the process dies; a binary operator without children reads T[0], which is out
\* of range only when T is empty.
C10_UncheckedIndex ==
    rState \in {"returned", "crashed"} =>
        /\ rIndex = Len(rL)
        /\ rIndex >= Len(rT) <=> Len(rL) >= Len(rT)
        /\ rState = "crashed" \/ rSym = Garbage => rIndex >= Len(rT)
        /\ rIndex >= Len(rT) /\ rState = "returned" => rSym \in OutOfBoundsOutcomes
        /\ rIndex < Len(rT) => rState = "returned" /\ rSym = rT[rIndex + 1]
        /\ rKids = 0 => rIndex = 0 /\ (rIndex >= Len(rT) <=> rT = <<>>)

C10_Witness ==
    /\ rState = "crashed"
    /\ rKids = 0
    /\ rT = <<>>
    /\ rIndex = 0

====
